---- MODULE Spec2Model ----
(***************************************************************************)
(* A model of the childcare finder: the collection script                  *)
(* (src/collect_data.py: SimpleChildcareCollector, FeatureEngineer,        *)
(* SimpleRecommender, main) and the viewer (src/app.py).                   *)
(*                                                                         *)
(* Numbers.  Python floats are modelled by exact fixed-point integers:     *)
(*   distance_miles   tenths of a mile          (5.0 miles  = 50)          *)
(*   rating           tenths of a star          (3.5 stars  = 35)          *)
(*   estimated_price  whole dollars                                        *)
(*   match score      1/ScoreUnit of a point    (52.5 points = 157500)     *)
(* The preference values the model draws divide ScoreUnit, so every term   *)
(* of the score is an exact integer in these units.                        *)
(*                                                                         *)
(* A cell of a pandas row is one of: a number, NaN (a missing value of a   *)
(* float column), or None (a missing value of an object column, or a     *)
(* missing dict entry).  A column a row does not have is absent from the   *)
(* DOMAIN of its features.                                                 *)
(***************************************************************************)
EXTENDS Integers, Sequences, FiniteSets, TLC

VARIABLES
    \* ---- scorer harness: one row and one preference set
    row, preferences, rec_score, app_score,
    \* ---- the collection script
    pc,                 \* where the run is
    API_KEY,            \* the key typed in at the prompt ("" before that)
    params,             \* the search request's parameters: its page token
    providers,          \* search hits collected so far
    hit,                \* position of the detail loop in providers
    detailed_providers, \* combined records collected so far
    log,                \* requests sent (with their responses) and sleeps
    df,                 \* the DataFrame: a sequence of rows
    top_n,
    recommendations,    \* index labels of the recommended rows of df, in order
    files,              \* datasets written so far, in order
    \* ---- the viewer
    csv,                \* the rows of childcare_processed.csv
    widgets,            \* the values of the sidebar's widgets
    view_df,            \* df of the last script run, with match_score
    filtered_df         \* filtered_df of the last script run

scoreVars == <<row, preferences, rec_score, app_score>>
collectVars == <<params, providers, hit, detailed_providers, log>>
mainVars == <<pc, API_KEY, params, providers, hit, detailed_providers, log, df, top_n,
              recommendations, files>>
viewVars == <<csv, widgets, view_df, filtered_df>>
vars == <<row, preferences, rec_score, app_score, pc, API_KEY, params, providers, hit,
          detailed_providers, log, df, top_n, recommendations, files,
          csv, widgets, view_df, filtered_df>>

----------------------------------------------------------------------------
\* Cells

Num(x) == [tag |-> "num", v |-> x]
NaN == [tag |-> "NaN", v |-> 0]
None == [tag |-> "None", v |-> 0]

\* A page token: absent, the empty string, or the token of a page.
NoToken == [tag |-> "None", page |-> 0]
EmptyToken == [tag |-> "str", page |-> 0]
PageToken(k) == [tag |-> "str", page |-> k]

\* pd.notna(x)
notna(x) == x.tag = "num"

\* Python truthiness of a cell, as in `if rating:` -- None and 0 are falsy,
\* NaN (a non-zero float) is truthy.
truthy(x) == (x.tag = "NaN") \/ (x.tag = "num" /\ x.v # 0)

\* `col in row and row[col] > 0` / `row.get(col, 0) > 0`: a comparison with
\* NaN is False, an absent column counts as 0.
positive(x) == x.tag = "num" /\ x.v > 0

\* Score units per point: 1 point = ScoreUnit units.
ScoreUnit == 30 * 100

ValueNames == {"montessori", "play_based", "stem", "reggio"}

\* f'mentions_{value}'
col_name(value) ==
    CASE value = "montessori" -> "mentions_montessori"
      [] value = "play_based" -> "mentions_play_based"
      [] value = "stem" -> "mentions_stem"
      [] value = "reggio" -> "mentions_reggio"
      [] OTHER -> "mentions_other"

Max2(a, b) == IF a >= b THEN a ELSE b
Min2(a, b) == IF a <= b THEN a ELSE b

----------------------------------------------------------------------------
\* SimpleRecommender.calculate_match_score  (collect_data.py 321-356)

\* 1. Distance Score (35 points)
RecDistanceTerm(r, p) ==
    IF notna(r.distance_miles) /\ r.distance_miles.v <= p.max_distance * 10
    THEN (35 * (p.max_distance * 10 - r.distance_miles.v) * ScoreUnit)
             \div (p.max_distance * 10)
    ELSE 0

\* 2. Price Score (30 points), with the over-budget branch
RecPriceTermNoFloor(r, p) ==
    IF ~notna(r.estimated_price) THEN 0
    ELSE IF r.estimated_price.v <= p.max_budget
    THEN (30 * (p.max_budget - r.estimated_price.v) * ScoreUnit) \div p.max_budget
    ELSE (30 * (2 * p.max_budget - r.estimated_price.v) * ScoreUnit) \div p.max_budget

RecPriceTerm(r, p) ==
    IF ~notna(r.estimated_price) THEN 0
    ELSE IF r.estimated_price.v <= p.max_budget
    THEN (30 * (p.max_budget - r.estimated_price.v) * ScoreUnit) \div p.max_budget
    ELSE Max2(0, (30 * (2 * p.max_budget - r.estimated_price.v) * ScoreUnit)
                     \div p.max_budget)

\* a rating term that counts an absent rating as 3.0
RecRatingTermDefault3(r, p) ==
    IF notna(r.rating) THEN (20 * r.rating.v * ScoreUnit) \div 50
    ELSE (20 * 30 * ScoreUnit) \div 50

\* 3. Rating Score (20 points)
RecRatingTerm(r, p) ==
    IF notna(r.rating) THEN (20 * r.rating.v * ScoreUnit) \div 50 ELSE 0

\* 4. Values Match (15 points)
RecValuesScore(r, p) ==
    Cardinality({k \in 1..Len(p.values) :
                    /\ col_name(p.values[k]) \in DOMAIN r.features
                    /\ positive(r.features[col_name(p.values[k])])})

RecValuesTerm(r, p) ==
    IF Len(p.values) > 0
    THEN (15 * RecValuesScore(r, p) * ScoreUnit) \div Len(p.values)
    ELSE 0

RecTerms(r, p) ==
    [distance |-> RecDistanceTerm(r, p), price |-> RecPriceTerm(r, p),
     rating |-> RecRatingTerm(r, p), values |-> RecValuesTerm(r, p)]

Total(t) == t.distance + t.price + t.rating + t.values

\* return min(score, 100)
SimpleRecommender_calculate_match_score(r, p) == Min2(Total(RecTerms(r, p)), 100 * ScoreUnit)

----------------------------------------------------------------------------
\* calculate_match_score of the viewer  (app.py 27-50)

AppDistanceTerm(r, p) ==
    IF notna(r.distance_miles) /\ r.distance_miles.v <= p.max_distance * 10
    THEN (35 * (p.max_distance * 10 - r.distance_miles.v) * ScoreUnit)
             \div (p.max_distance * 10)
    ELSE 0

\* a price term that gives the full 30 points to every price within budget
AppPriceTermFlat(r, p) ==
    IF notna(r.estimated_price) /\ r.estimated_price.v <= p.max_budget
    THEN 30 * ScoreUnit
    ELSE 0

AppPriceTerm(r, p) ==
    IF notna(r.estimated_price) /\ r.estimated_price.v <= p.max_budget
    THEN (30 * (p.max_budget - r.estimated_price.v) * ScoreUnit) \div p.max_budget
    ELSE 0

AppRatingTerm(r, p) ==
    IF notna(r.rating) THEN (20 * r.rating.v * ScoreUnit) \div 50 ELSE 0

\* row.get(col, 0)
RowGet(r, col) == IF col \in DOMAIN r.features THEN r.features[col] ELSE Num(0)

AppMatches(r, p) ==
    Cardinality({k \in 1..Len(p.values) : positive(RowGet(r, col_name(p.values[k])))})

AppValuesTerm(r, p) ==
    IF Len(p.values) > 0
    THEN (15 * AppMatches(r, p) * ScoreUnit) \div Len(p.values)
    ELSE 0

AppTerms(r, p) ==
    [distance |-> AppDistanceTerm(r, p), price |-> AppPriceTerm(r, p),
     rating |-> AppRatingTerm(r, p), values |-> AppValuesTerm(r, p)]

app_calculate_match_score(r, p) == Min2(Total(AppTerms(r, p)), 100 * ScoreUnit)

----------------------------------------------------------------------------
\* Scorer harness: both scorers applied to one row and one preference set.

\* Largest keyword count a row of the harness carries.
MaxMentions == 2

DistanceCells == {NaN, Num(0), Num(50), Num(100), Num(101), Num(9990)}
PriceCells == {NaN, Num(510), Num(750), Num(1500), Num(1600), Num(3100)}
RatingCells == {None, NaN, Num(0), Num(35), Num(50)}
\* The value columns of a row: mentions_stem and mentions_reggio are absent
\* from the row, or NaN, or a count.
FeatureCells ==
    {[k \in {"mentions_montessori", "mentions_play_based"} |->
         IF k = "mentions_montessori" THEN a ELSE b] :
        a \in {Num(0), Num(MaxMentions)}, b \in {Num(0), Num(1)}}
    \cup
    {[k \in {"mentions_montessori", "mentions_play_based", "mentions_stem",
             "mentions_reggio"} |->
         IF k = "mentions_montessori" THEN a
         ELSE IF k = "mentions_play_based" THEN b ELSE c] :
        a \in {Num(0), Num(MaxMentions)}, b \in {Num(0), Num(1)},
        c \in {NaN, Num(MaxMentions)}}

ScoreRows ==
    [distance_miles : DistanceCells, estimated_price : PriceCells,
     rating : RatingCells, features : FeatureCells]

ValueLists ==
    {<<>>, <<"montessori">>, <<"montessori", "play_based">>,
     <<"montessori", "play_based", "stem", "reggio">>}

ScorePreferences ==
    [max_distance : {1, 10, 30}, max_budget : {500, 1500, 3000}, values : ValueLists]

NoTerms == [distance |-> 0, price |-> 0, rating |-> 0, values |-> 0]
NotScored == [done |-> FALSE, terms |-> NoTerms, score |-> 0]

\* the sidebar's initial values, app.py 81-120
default_widgets ==
    [max_distance |-> 10, max_budget |-> 1500, min_rating |-> 35,
     montessori |-> FALSE, play_based |-> FALSE, stem |-> FALSE, reggio |-> FALSE]

IdleViewer ==
    /\ csv = <<>>
    /\ widgets = default_widgets
    /\ view_df = <<>>
    /\ filtered_df = <<>>

IdleMain ==
    /\ pc = "idle"
    /\ API_KEY = ""
    /\ params = NoToken
    /\ providers = <<>>
    /\ hit = 0
    /\ detailed_providers = <<>>
    /\ log = <<>>
    /\ df = <<>>
    /\ top_n = 10
    /\ recommendations = <<>>
    /\ files = <<>>

ScoreInit ==
    /\ row \in ScoreRows
    /\ preferences \in ScorePreferences
    /\ rec_score = NotScored
    /\ app_score = NotScored
    /\ IdleMain
    /\ IdleViewer

\* SimpleRecommender.calculate_match_score(row, preferences)
ScoreWithRecommender ==
    /\ ~rec_score.done
    /\ rec_score' = [done |-> TRUE, terms |-> RecTerms(row, preferences),
                     score |-> SimpleRecommender_calculate_match_score(row, preferences)]
    /\ UNCHANGED <<row, preferences, app_score>>
    /\ UNCHANGED <<mainVars, viewVars>>

\* calculate_match_score(row, max_distance, max_budget, values) of the viewer
ScoreWithViewer ==
    /\ ~app_score.done
    /\ app_score' = [done |-> TRUE, terms |-> AppTerms(row, preferences),
                     score |-> app_calculate_match_score(row, preferences)]
    /\ UNCHANGED <<row, preferences, rec_score>>
    /\ UNCHANGED <<mainVars, viewVars>>

ScoreNext == ScoreWithRecommender \/ ScoreWithViewer

SpecScore == ScoreInit /\ [][ScoreNext]_vars

----------------------------------------------------------------------------
\* C1: for every row (rating in 0..5 or absent, distance >= 0 or absent,
\* price present or absent, any mention counts) and every preference set with
\* max_distance > 0 and max_budget > 0, the score returned by both scorers
\* lies in the closed interval [0, 100].
C1_ScoreInRange ==
    /\ rec_score.done => (0 <= rec_score.score /\ rec_score.score <= 100 * ScoreUnit)
    /\ app_score.done => (0 <= app_score.score /\ app_score.score <= 100 * ScoreUnit)

\* C1 witness: both scorers have scored a row whose price is more than twice
\* the budget (the case where the recommender's over-budget term is floored at
\* 0) and whose other terms are absent: both scores are the lower end 0.
C1_Witness ==
    /\ rec_score.done /\ app_score.done
    /\ notna(row.estimated_price) /\ row.estimated_price.v > 2 * preferences.max_budget
    /\ ~notna(row.distance_miles) /\ ~notna(row.rating)
    /\ rec_score.score = 0 /\ app_score.score = 0

\* C2 (as claimed): over the limit the price term and the distance term are
\* exactly 0 in both scorers; within the limit they are 30*(1 - price/max_budget)
\* and 35*(1 - distance/max_distance).
C2_OverLimitContributesZero ==
    /\ rec_score.done =>
        /\ (notna(row.estimated_price) /\ row.estimated_price.v > preferences.max_budget)
              => rec_score.terms.price = 0
        /\ (notna(row.distance_miles) /\ row.distance_miles.v > preferences.max_distance * 10)
              => rec_score.terms.distance = 0
        /\ (notna(row.estimated_price) /\ row.estimated_price.v <= preferences.max_budget)
              => rec_score.terms.price * preferences.max_budget
                   = 30 * (preferences.max_budget - row.estimated_price.v) * ScoreUnit
        /\ (notna(row.distance_miles) /\ row.distance_miles.v <= preferences.max_distance * 10)
              => rec_score.terms.distance * preferences.max_distance * 10
                   = 35 * (preferences.max_distance * 10 - row.distance_miles.v) * ScoreUnit
    /\ app_score.done =>
        /\ (notna(row.estimated_price) /\ row.estimated_price.v > preferences.max_budget)
              => app_score.terms.price = 0
        /\ (notna(row.distance_miles) /\ row.distance_miles.v > preferences.max_distance * 10)
              => app_score.terms.distance = 0
        /\ (notna(row.estimated_price) /\ row.estimated_price.v <= preferences.max_budget)
              => app_score.terms.price * preferences.max_budget
                   = 30 * (preferences.max_budget - row.estimated_price.v) * ScoreUnit
        /\ (notna(row.distance_miles) /\ row.distance_miles.v <= preferences.max_distance * 10)
              => app_score.terms.distance * preferences.max_distance * 10
                   = 35 * (preferences.max_distance * 10 - row.distance_miles.v) * ScoreUnit

\* C12: for every provider whose rating is absent (None or NaN) the rating term
\* is exactly 0 in both scorers and the score is the sum of the distance, price
\* and values terms alone; the scorers return a score, they raise no error.
C12_AbsentRatingTermZero ==
    /\ (rec_score.done /\ ~notna(row.rating)) =>
          /\ rec_score.terms.rating = 0
          /\ rec_score.score = rec_score.terms.distance + rec_score.terms.price
                                   + rec_score.terms.values
    /\ (app_score.done /\ ~notna(row.rating)) =>
          /\ app_score.terms.rating = 0
          /\ app_score.score = app_score.terms.distance + app_score.terms.price
                                   + app_score.terms.values

\* C12 witness: both scorers have scored a row without a rating whose other
\* terms all contribute.
C12_Witness ==
    /\ rec_score.done /\ app_score.done
    /\ row.rating \in {None, NaN}
    /\ rec_score.terms.distance > 0 /\ rec_score.terms.price > 0
    /\ rec_score.terms.values > 0
    /\ app_score.score > 0

\* the provider and the preferences of the worked example: distance 5 miles,
\* price 750, rating 5.0; max_distance 10, max_budget 1500, no values
IsExample ==
    /\ row.distance_miles = Num(50)
    /\ row.estimated_price = Num(750)
    /\ row.rating = Num(50)
    /\ preferences = [max_distance |-> 10, max_budget |-> 1500, values |-> <<>>]

\* 17.5, 15, 20 and 0 points
ExampleTerms ==
    [distance |-> (175 * ScoreUnit) \div 10, price |-> 15 * ScoreUnit,
     rating |-> 20 * ScoreUnit, values |-> 0]

\* C13: with max_distance = 10, max_budget = 1500 and no requested values a
\* provider at distance 5, price 750 and rating 5.0 scores exactly 52.5
\* (17.5 + 15 + 20 + 0) in the recommender's scorer and in the viewer's.
C13_ExampleScore ==
    /\ (IsExample /\ rec_score.done) =>
          /\ rec_score.terms = ExampleTerms
          /\ rec_score.score * 10 = 525 * ScoreUnit
    /\ (IsExample /\ app_score.done) =>
          /\ app_score.terms = ExampleTerms
          /\ app_score.score * 10 = 525 * ScoreUnit

\* C13 witness: both scorers have scored the example.
C13_Witness == IsExample /\ rec_score.done /\ app_score.done

\* C16 (as claimed): the recommender's score is monotone in price -- a
\* provider that differs from the scored one only by a higher estimated_price
\* never scores higher, in particular one just over max_budget never outscores
\* one exactly at max_budget.
C16_MonotoneInPrice ==
    (rec_score.done /\ notna(row.estimated_price)) =>
        \A c \in PriceCells :
            (notna(c) /\ c.v > row.estimated_price.v) =>
                SimpleRecommender_calculate_match_score(
                    [row EXCEPT !.estimated_price = c], preferences) <= rec_score.score

----------------------------------------------------------------------------
\* FeatureEngineer  (collect_data.py 160-309)
\*
\* A review text is a sequence of words; str.count(keyword) is the number of
\* words the keyword occurs in (a keyword occurs in a longer word that
\* contains it).

\* str.lower() on a word
Lower(w) ==
    CASE w = "Affordable" -> "affordable"
      [] w = "Amazing" -> "amazing"
      [] w = "Clean" -> "clean"
      [] w = "Educational" -> "educational"
      [] w = "Great" -> "great"
      [] w = "Montessori" -> "montessori"
      [] OTHER -> w

\* the keywords that are substrings of a (lower-case) word
Substrings(w) ==
    CASE w = "unprofessional" -> {"unprofessional", "professional"}
      [] w = "system" -> {"stem"}
      [] w = "cleaning" -> {"clean"}
      [] OTHER -> {w}

\* len(word)
Chars(w) ==
    CASE w \in {"Affordable", "affordable"} -> 10
      [] w \in {"Amazing", "amazing"} -> 7
      [] w \in {"Clean", "clean", "Great", "great"} -> 5
      [] w \in {"Educational", "educational"} -> 11
      [] w \in {"Montessori", "montessori"} -> 10
      [] w = "unprofessional" -> 14
      [] w = "system" -> 6
      [] w = "cleaning" -> 8
      [] w = "expensive" -> 9
      [] w = "caring" -> 6
      [] w = "safe" -> 4
      [] w = "stem" -> 4
      [] w = "reggio" -> 6
      [] w = "play-based" -> 10
      [] OTHER -> 4

RECURSIVE LowerText(_)
LowerText(text) ==
    IF text = <<>> THEN <<>> ELSE <<Lower(Head(text))>> \o LowerText(Tail(text))

\* ' '.join([r.get('text', '').lower() for r in reviews])
RECURSIVE AllText(_)
AllText(reviews) ==
    IF reviews = <<>> THEN <<>>
    ELSE LowerText(Head(reviews).text) \o AllText(Tail(reviews))

\* all_text.count(keyword)
Count(all_text, keyword) ==
    Cardinality({i \in 1..Len(all_text) : keyword \in Substrings(all_text[i])})

RECURSIVE SumCount(_, _)
SumCount(all_text, keywords) ==
    IF keywords = <<>> THEN 0
    ELSE Count(all_text, Head(keywords)) + SumCount(all_text, Tail(keywords))

\* len(r.get('text', '')): the words and the blanks between them
RECURSIVE TextLen(_)
TextLen(text) ==
    IF text = <<>> THEN 0
    ELSE Chars(Head(text)) + (IF Len(text) > 1 THEN 1 ELSE 0) + TextLen(Tail(text))

RECURSIVE SumTextLen(_)
SumTextLen(reviews) ==
    IF reviews = <<>> THEN 0 ELSE TextLen(Head(reviews).text) + SumTextLen(Tail(reviews))

NoReviewKeys ==
    {"mentions_clean", "mentions_safe", "mentions_caring", "mentions_educational",
     "mentions_montessori", "mentions_play_based", "mentions_affordable",
     "mentions_expensive", "negative_keywords_count", "positive_keywords_count",
     "avg_review_length"}

ReviewKeys ==
    {"mentions_montessori", "mentions_reggio", "mentions_play_based", "mentions_stem",
     "mentions_clean", "mentions_safe", "mentions_caring", "mentions_educational",
     "mentions_affordable", "mentions_expensive", "positive_keywords_count",
     "negative_keywords_count", "avg_review_length"}

Flag(b) == IF b THEN 1 ELSE 0

\* the value of one key of the dict built from a non-empty review list
\* (avg_review_length in tenths of a character)
ReviewFeature(reviews, k) ==
    LET all_text == AllText(reviews) IN
    CASE k = "mentions_montessori" -> Flag(Count(all_text, "montessori") > 0)
      [] k = "mentions_reggio" -> Flag(Count(all_text, "reggio") > 0)
      [] k = "mentions_play_based" ->
             Flag(SumCount(all_text, <<"play-based", "play based", "child-led">>) > 0)
      [] k = "mentions_stem" -> Flag(Count(all_text, "stem") > 0)
      [] k = "mentions_clean" -> Count(all_text, "clean")
      [] k = "mentions_safe" -> Count(all_text, "safe")
      [] k = "mentions_caring" -> SumCount(all_text, <<"caring", "nurturing">>)
      [] k = "mentions_educational" -> SumCount(all_text, <<"educational", "learning">>)
      [] k = "mentions_affordable" -> SumCount(all_text, <<"affordable", "reasonable">>)
      [] k = "mentions_expensive" -> SumCount(all_text, <<"expensive", "pricey">>)
      [] k = "positive_keywords_count" ->
             SumCount(all_text, <<"excellent", "amazing", "wonderful", "great", "love",
                                  "best", "professional">>)
      [] k = "negative_keywords_count" ->
             SumCount(all_text, <<"poor", "bad", "terrible", "disappointed", "worst",
                                  "unprofessional">>)
      [] k = "avg_review_length" -> (10 * SumTextLen(reviews)) \div Len(reviews)

\* extract_review_features(reviews): a dict, as a function from its keys
extract_review_features(reviews) ==
    IF reviews = <<>>
    THEN [k \in NoReviewKeys |-> Num(0)]
    ELSE [k \in ReviewKeys |-> Num(ReviewFeature(reviews, k))]

\* lines 450, 424: the reference point (42.5001, -70.8578), in 1/10000 degree
user_lat == 425001
user_lon == -708578

\* The Haversine distance (R = 3959) from the reference point to the
\* coordinates the model draws, in tenths of a mile, rounded.
Haversine(lat2, lon2) ==
    CASE lat2 = 425001 /\ lon2 = -708578 -> 0
      [] lat2 = 425001 /\ lon2 = -708650 -> 4
      [] lat2 = 425001 /\ lon2 = -708520 -> 3
      [] lat2 = 425001 /\ lon2 = -710589 -> 102
      [] lat2 = 425102 /\ lon2 = -708578 -> 7
      [] lat2 = 425102 /\ lon2 = -708650 -> 8
      [] lat2 = 425102 /\ lon2 = -708520 -> 8
      [] lat2 = 425102 /\ lon2 = -710589 -> 103
      [] lat2 = 424950 /\ lon2 = -708578 -> 4
      [] lat2 = 424950 /\ lon2 = -708650 -> 5
      [] lat2 = 424950 /\ lon2 = -708520 -> 5
      [] lat2 = 424950 /\ lon2 = -710589 -> 103
      [] lat2 = 423601 /\ lon2 = -708578 -> 97
      [] lat2 = 423601 /\ lon2 = -708650 -> 97
      [] lat2 = 423601 /\ lon2 = -708520 -> 97
      [] lat2 = 423601 /\ lon2 = -710589 -> 141

\* calculate_distance(lat1, lon1, lat2, lon2), from the reference point; in
\* float arithmetic a NaN operand gives NaN
calculate_distance(lat1, lon1, lat2, lon2) ==
    IF ~(notna(lat2) /\ notna(lon2)) THEN NaN
    ELSE IF lat1 = lat2.v /\ lon1 = lon2.v THEN Num(0)
    ELSE Num(Haversine(lat2.v, lon2.v))

\* radians(None) raises TypeError
calculate_distance_raises(lat2, lon2) == lat2 = None \/ lon2 = None

base_price == 1200

\* estimate_price_from_reviews(reviews, rating)
estimate_price_from_reviews(reviews, rating) ==
    IF reviews = <<>>
    THEN IF truthy(rating)
         THEN IF rating = NaN THEN NaN ELSE Num(base_price + (rating.v - 35) * 20)
         ELSE Num(base_price)
    ELSE LET all_text == AllText(reviews)
             affordable_count == SumCount(all_text, <<"affordable", "reasonable">>)
             expensive_count == SumCount(all_text, <<"expensive", "pricey">>)
             estimated_price ==
                 IF affordable_count > expensive_count THEN (base_price * 85) \div 100
                 ELSE IF expensive_count > affordable_count THEN (base_price * 125) \div 100
                 ELSE base_price
         IN  IF truthy(rating)
             THEN IF rating = NaN THEN NaN ELSE Num(estimated_price + (rating.v - 35) * 15)
             ELSE Num(estimated_price)

\* `... if pd.notna(row['latitude']) else 999`  (999 miles, in tenths)
distance_miles_of(r) ==
    IF notna(r.latitude)
    THEN calculate_distance(user_lat, user_lon, r.latitude, r.longitude)
    ELSE Num(9990)

\* pd.DataFrame(review_features.tolist()): the columns are the union of the
\* dicts' keys; a key a row's dict lacks becomes NaN in that row.
review_df(d) ==
    LET dicts == [i \in 1..Len(d) |-> extract_review_features(d[i].reviews)]
        columns == UNION {DOMAIN dicts[i] : i \in 1..Len(d)}
    IN  [i \in 1..Len(d) |->
            [k \in columns |-> IF k \in DOMAIN dicts[i] THEN dicts[i][k] ELSE NaN]]

\* engineer_all_features raises (TypeError) when a row has a latitude and its
\* longitude is None
engineer_all_features_raises(d) ==
    \E i \in 1..Len(d) :
        notna(d[i].latitude) /\ calculate_distance_raises(d[i].latitude, d[i].longitude)

\* (rating.fillna(3) / 5) * 0.6 + ((pos - neg) / (pos + neg + 1)) * 0.4, lines
\* 301-305, in thousandths (rounded down)
quality_score(rating, features) ==
    LET pos == features["positive_keywords_count"].v
        neg == features["negative_keywords_count"].v
    IN  Num(12 * (IF notna(rating) THEN rating.v ELSE 30)
              + (400 * (pos - neg)) \div (pos + neg + 1))

\* engineer_all_features(df, user_location)
engineer_all_features(d) ==
    [i \in 1..Len(d) |->
        [place_id |-> d[i].place_id,
         name |-> d[i].name,
         rating |-> d[i].rating,
         latitude |-> d[i].latitude,
         longitude |-> d[i].longitude,
         reviews |-> d[i].reviews,
         distance_miles |-> distance_miles_of(d[i]),
         features |-> review_df(d)[i],
         estimated_price |-> estimate_price_from_reviews(d[i].reviews, d[i].rating),
         quality_score |-> quality_score(d[i].rating, review_df(d)[i])]]

\* pd.DataFrame(list of dicts): a column with a number in it is a float column
\* and its None entries become NaN; a column of None only keeps None.
HasNumber(records, f) == \E i \in 1..Len(records) : notna(records[i][f])

CoerceCell(records, f, i) ==
    IF records[i][f] = None /\ HasNumber(records, f) THEN NaN ELSE records[i][f]

DataFrame(records) ==
    [i \in 1..Len(records) |->
        [place_id |-> records[i].place_id,
         name |-> records[i].name,
         rating |-> CoerceCell(records, "rating", i),
         latitude |-> CoerceCell(records, "latitude", i),
         longitude |-> CoerceCell(records, "longitude", i),
         reviews |-> records[i].reviews]]

----------------------------------------------------------------------------
\* SimpleChildcareCollector  (collect_data.py 20-154)

\* Pages the upstream search serves at most.
MaxPages == 3
\* Hits the upstream search returns at most, over all pages.
MaxHits == 2

Unknown == [tag |-> "Unknown", v |-> 0]

\* The hits a response for page k can carry when the upstream has already
\* returned `sent` hits: hit number j of the page has the identity 10*k + j and
\* may lack its place_id.
Hits(k, sent) ==
    UNION {{[j \in 1..n |->
               [place_id |-> IF j \in withId THEN Num(10 * k + j) ELSE None,
                name |-> Num(10 * k + j)]] : withId \in SUBSET (1..n)}
           : n \in 0..(MaxHits - sent)}

\* The responses of the search endpoint for page k. A response with a status
\* other than OK may still carry results and a token.
SearchResponses(k, sent) ==
    {[status |-> st, results |-> rs, next_page_token |-> tk] :
        st \in {"OK", "OVER_QUERY_LIMIT"},
        rs \in Hits(k, sent),
        tk \in IF k < MaxPages THEN {NoToken, EmptyToken, PageToken(k + 1)}
               ELSE {NoToken, EmptyToken}}

\* `if not next_page_token`
NoNextPage(token) == token.tag = "None" \/ token.page = 0

\* the page a request with these params asks for
PageOf(p) == IF NoNextPage(p) THEN 1 ELSE p.page

\* search_childcare_in_area, lines 65-69: the providers after a response
ProvidersAfterAnyStatus(ps, data) == ps \o data.results

ProvidersAfter(ps, data) ==
    IF data.status # "OK" THEN ps ELSE ps \o data.results

\* search_childcare_in_area, lines 65-74: whether the loop goes on
SearchContinues(data) ==
    data.status = "OK" /\ ~NoNextPage(data.next_page_token)

\* hits the upstream has returned so far, in any response
RECURSIVE HitsSent(_)
HitsSent(l) ==
    IF l = <<>> THEN 0
    ELSE (IF Head(l).op = "search" THEN Len(Head(l).data.results) ELSE 0)
         + HitsSent(Tail(l))

\* One iteration of `while True` of search_childcare_in_area; on `break` the
\* function returns to collect_all_providers (lines 113-120), which returns an
\* empty DataFrame to main when there are no providers (main, lines 438-440).
SearchRequest ==
    /\ pc = "search"
    /\ \E data \in SearchResponses(PageOf(params), HitsSent(log)) :
        LET request == [op |-> "search", page |-> PageOf(params), data |-> data]
            found == ProvidersAfter(providers, data)
        IN  /\ providers' = found
            /\ IF SearchContinues(data)
               THEN /\ log' = log \o <<request, [op |-> "sleep", t |-> 20]>>
                    /\ params' = data.next_page_token
                    /\ pc' = "search"
                    /\ hit' = hit
               ELSE /\ log' = Append(log, request)
                    /\ params' = params
                    /\ pc' = IF found = <<>> THEN "no_data" ELSE "details"
                    /\ hit' = 1
    /\ UNCHANGED <<detailed_providers, df, top_n, recommendations, files>>
    /\ UNCHANGED <<API_KEY, scoreVars, viewVars>>

\* a dict with no entries
EmptyDict == [k \in {} |-> None]

\* dict.get(key, default)
Get(d, key, default) == IF key \in DOMAIN d THEN d[key] ELSE default

\* The `result` objects of the details endpoint for the place with identity id.
DetailResults(id) ==
    {EmptyDict,
     [business_status |-> "OPERATIONAL"],
     [name |-> Num(100 + id), rating |-> Num(45), reviews |-> <<>>,
      geometry |-> [location |-> [lat |-> Num(425001), lng |-> Num(-710589)]]],
     [name |-> Num(100 + id),
      reviews |-> <<[text |-> <<"Affordable", "safe">>]>>,
      geometry |-> [location |-> [lat |-> Num(425001)]]],
     [name |-> Num(100 + id), rating |-> Num(35),
      reviews |-> <<[text |-> <<"expensive">>],
                    [text |-> <<"Amazing", "montessori", "system">>]>>,
      geometry |-> [location |-> [lat |-> Num(423601), lng |-> Num(-708578)]]]}

DetailResponses(id) ==
    {[status |-> "OK", result |-> r] : r \in DetailResults(id)}
    \cup {[status |-> "NOT_FOUND"]}

\* get_detailed_info, lines 100-102
get_detailed_info(data) == IF data.status = "OK" THEN data.result ELSE EmptyDict

\* `if not place_id`
NoPlaceId(provider) == Get(provider, "place_id", None) = None

\* `if details:` -- a dict is truthy when it has an entry
HasDetailsAlways(details) == TRUE

HasDetails(details) == DOMAIN details # {}

\* collect_all_providers, lines 132-144 (the fields the later stages read)
Combined(provider, details) ==
    [place_id |-> provider.place_id,
     name |-> Get(details, "name", Get(provider, "name", Unknown)),
     rating |-> Get(details, "rating", None),
     latitude |-> Get(Get(Get(details, "geometry", EmptyDict), "location", EmptyDict),
                      "lat", None),
     longitude |-> Get(Get(Get(details, "geometry", EmptyDict), "location", EmptyDict),
                       "lng", None),
     reviews |-> Get(details, "reviews", <<>>)]

\* collect_all_providers, lines 130-146: the records after one hit's details
DetailedAfter(detailed, provider, details) ==
    IF HasDetails(details) THEN Append(detailed, Combined(provider, details))
    ELSE detailed

\* One iteration of `for provider in providers` of collect_all_providers; after
\* the last one the function builds the DataFrame and returns to main, which
\* stops when it is empty (lines 150-154, 436-440).
DetailStep ==
    /\ pc = "details"
    /\ hit <= Len(providers)
    /\ LET provider == providers[hit]
           after(detailed) ==
               /\ detailed_providers' = detailed
               /\ hit' = hit + 1
               /\ IF hit < Len(providers)
                  THEN pc' = "details" /\ df' = df
                  ELSE /\ df' = DataFrame(detailed)
                       /\ pc' = IF detailed = <<>> THEN "no_data" ELSE "save_raw"
       IN  IF NoPlaceId(provider)
           THEN after(detailed_providers) /\ log' = log
           ELSE \E data \in DetailResponses(provider.place_id.v) :
                   /\ after(DetailedAfter(detailed_providers, provider,
                                          get_detailed_info(data)))
                   /\ log' = log \o <<[op |-> "details", hit |-> hit,
                                       place_id |-> provider.place_id, data |-> data],
                                      [op |-> "sleep", t |-> 1]>>
    /\ UNCHANGED <<params, providers, top_n, recommendations, files>>
    /\ UNCHANGED <<API_KEY, scoreVars, viewVars>>

----------------------------------------------------------------------------
\* SimpleRecommender.recommend  (collect_data.py 358-378)

\* the row with the column match_score set
WithMatchScore(r, score) ==
    [k \in DOMAIN r \cup {"match_score"} |-> IF k = "match_score" THEN score ELSE r[k]]

\* df['match_score'] = df.apply(lambda row: self.calculate_match_score(row, preferences))
ScoredWith(d, p) ==
    [i \in 1..Len(d) |->
        WithMatchScore(d[i], SimpleRecommender_calculate_match_score(d[i], p))]

\* the first n of the index labels 1..len in the strict total order `before`,
\* given as the set of the pairs <<i, j>> with i before j
SelectN(len, n, before) ==
    [k \in 1..Min2(Max2(n, 0), len) |->
        CHOOSE i \in 1..len : Cardinality({j \in 1..len : <<j, i>> \in before}) = k - 1]

nlargest_keep_last(n, d) ==
    LET before == {ij \in (1..Len(d)) \X (1..Len(d)) :
            LET i == ij[1]
                j == ij[2]
            IN  \/ d[i].match_score > d[j].match_score
                \/ d[i].match_score = d[j].match_score /\ i > j}
    IN  SelectN(Len(d), n, before)

nsmallest(n, d) ==
    LET before == {ij \in (1..Len(d)) \X (1..Len(d)) :
            LET i == ij[1]
                j == ij[2]
            IN  \/ d[i].match_score < d[j].match_score
                \/ d[i].match_score = d[j].match_score /\ i < j}
    IN  SelectN(Len(d), n, before)

\* df.nlargest(n, 'match_score'): the n rows with the largest match_score, in
\* descending order, rows with equal values in their order in df (keep='first')
nlargest(n, d) ==
    LET before == {ij \in (1..Len(d)) \X (1..Len(d)) :
            LET i == ij[1]
                j == ij[2]
            IN  \/ d[i].match_score > d[j].match_score
                \/ d[i].match_score = d[j].match_score /\ i < j}
    IN  SelectN(Len(d), n, before)

\* recommendations = recommender.recommend(df, preferences, top_n)
Recommend ==
    /\ pc = "recommend"
    /\ df' = ScoredWith(df, preferences)
    /\ recommendations' = nlargest(top_n, ScoredWith(df, preferences))
    /\ pc' = "display"
    /\ UNCHANGED <<params, providers, hit, detailed_providers, log, top_n, files>>
    /\ UNCHANGED <<API_KEY, scoreVars, viewVars>>

----------------------------------------------------------------------------
\* main  (collect_data.py 384-498)

\* the sample data of the demo mode, lines 401-416
sample_data ==
    <<[place_id |-> None, name |-> Num(1), rating |-> Num(48),
       latitude |-> Num(425001), longitude |-> Num(-708578),
       reviews |-> <<[text |-> <<"Clean", "caring", "Great">>]>>],
      [place_id |-> None, name |-> Num(2), rating |-> Num(42),
       latitude |-> Num(425102), longitude |-> Num(-708650),
       reviews |-> <<[text |-> <<"Affordable", "safe">>]>>],
      [place_id |-> None, name |-> Num(3), rating |-> Num(49),
       latitude |-> Num(424950), longitude |-> Num(-708520),
       reviews |-> <<[text |-> <<"Amazing", "montessori", "Educational">>]>>]>>

\* lines 462-466
user_preferences ==
    [max_distance |-> 10, max_budget |-> 1500, values |-> <<"montessori", "play_based">>]

\* API_KEY = input(...): demo mode builds the sample DataFrame, any other key
\* goes on to the confirmation
MainSetup ==
    /\ pc = "setup"
    /\ \E key \in {"demo", "key"} :
          /\ API_KEY' = key
          /\ IF key = "demo"
             THEN pc' = "engineer" /\ df' = DataFrame(sample_data)
             ELSE pc' = "proceed" /\ df' = df
    /\ UNCHANGED <<collectVars, top_n, recommendations, files>>
    /\ UNCHANGED <<scoreVars, viewVars>>

\* proceed = input("Proceed? (y/n): "): anything but y returns
MainProceed ==
    /\ pc = "proceed"
    /\ \E proceed \in {"y", "n"} :
          pc' = IF proceed # "y" THEN "cancelled" ELSE "search"
    /\ UNCHANGED <<collectVars, df, top_n, recommendations, files>>
    /\ UNCHANGED <<API_KEY, scoreVars, viewVars>>

Written(name) == [name |-> name, rows |-> Len(df)]

\* df.to_csv('childcare_raw_google.csv', index=False)
SaveRaw ==
    /\ pc = "save_raw"
    /\ files' = Append(files, Written("childcare_raw_google.csv"))
    /\ pc' = "engineer"
    /\ UNCHANGED <<collectVars, df, top_n, recommendations>>
    /\ UNCHANGED <<API_KEY, scoreVars, viewVars>>

\* df = engineer.engineer_all_features(df, user_location)
Engineer ==
    /\ pc = "engineer"
    /\ IF engineer_all_features_raises(df)
       THEN pc' = "raised" /\ df' = df
       ELSE pc' = "save_processed" /\ df' = engineer_all_features(df)
    /\ UNCHANGED <<collectVars, top_n, recommendations, files>>
    /\ UNCHANGED <<API_KEY, scoreVars, viewVars>>

SaveProcessedOverRaw ==
    /\ pc = "save_processed"
    /\ files' = Append(files, Written("childcare_raw_google.csv"))
    /\ pc' = "recommend"
    /\ UNCHANGED <<collectVars, df, top_n, recommendations>>
    /\ UNCHANGED <<API_KEY, scoreVars, viewVars>>

\* df.to_csv('childcare_processed.csv', index=False)
SaveProcessed ==
    /\ pc = "save_processed"
    /\ files' = Append(files, Written("childcare_processed.csv"))
    /\ pc' = "recommend"
    /\ UNCHANGED <<collectVars, df, top_n, recommendations>>
    /\ UNCHANGED <<API_KEY, scoreVars, viewVars>>

\* f"{row['rating']:.1f}" raises TypeError for None (NaN prints as nan)
DisplayRaises ==
    \E k \in 1..Len(recommendations) : df[recommendations[k]].rating = None

\* the report, lines 471-483
Display ==
    /\ pc = "display"
    /\ pc' = IF DisplayRaises THEN "raised" ELSE "save_top"
    /\ UNCHANGED <<collectVars, df, top_n, recommendations, files>>
    /\ UNCHANGED <<API_KEY, scoreVars, viewVars>>

\* recommendations.to_csv('top_recommendations.csv', index=False)
SaveTop ==
    /\ pc = "save_top"
    /\ files' = Append(files, [name |-> "top_recommendations.csv",
                               rows |-> Len(recommendations)])
    /\ pc' = "done"
    /\ UNCHANGED <<collectVars, df, top_n, recommendations>>
    /\ UNCHANGED <<API_KEY, scoreVars, viewVars>>

IdleScore ==
    /\ row = [distance_miles |-> NaN, estimated_price |-> NaN, rating |-> NaN,
              features |-> EmptyDict]
    /\ rec_score = NotScored
    /\ app_score = NotScored

Init ==
    /\ pc = "setup"
    /\ API_KEY = ""
    /\ params = NoToken
    /\ providers = <<>>
    /\ hit = 0
    /\ detailed_providers = <<>>
    /\ log = <<>>
    /\ df = <<>>
    /\ preferences = user_preferences
    /\ top_n = 10
    /\ recommendations = <<>>
    /\ files = <<>>
    /\ IdleScore
    /\ IdleViewer

Next ==
    \/ MainSetup
    \/ MainProceed
    \/ SearchRequest
    \/ DetailStep
    \/ SaveRaw
    \/ Engineer
    \/ SaveProcessed
    \/ Recommend
    \/ Display
    \/ SaveTop

Spec == Init /\ [][Next]_vars

----------------------------------------------------------------------------
\* Properties of the collection script

\* the run has engineered its features
Engineered == pc \in {"save_processed", "recommend", "display", "save_top", "done"}

\* C3 (as claimed): every provider whose latitude or longitude is absent gets
\* distance_miles = 999 and fails the viewer's filter
\* distance_miles <= max_distance * 1.2 for every max_distance in 1..30.
C3_AbsentCoordinatesGive999 ==
    Engineered =>
        \A i \in 1..Len(df) :
            (~notna(df[i].latitude) \/ ~notna(df[i].longitude)) =>
                /\ df[i].distance_miles = Num(9990)
                /\ \A max_distance \in 1..30 :
                      ~(notna(df[i].distance_miles)
                        /\ df[i].distance_miles.v <= max_distance * 12)

\* the log up to the first detail request: the requests and sleeps of
\* search_childcare_in_area
RECURSIVE SearchPart(_)
SearchPart(l) ==
    IF l = <<>> \/ Head(l).op = "details" THEN <<>>
    ELSE <<Head(l)>> \o SearchPart(Tail(l))

IsSearch(e) == e.op = "search"
IsDetails(e) == e.op = "details"

SearchRequests == SelectSeq(SearchPart(log), IsSearch)

RECURSIVE OkResults(_)
OkResults(reqs) ==
    IF reqs = <<>> THEN <<>>
    ELSE (IF Head(reqs).data.status = "OK" THEN Head(reqs).data.results ELSE <<>>)
         \o OkResults(Tail(reqs))

OkWithToken(data) ==
    /\ data.status = "OK"
    /\ data.next_page_token.tag = "str"
    /\ data.next_page_token.page # 0

Searching == pc = "search"
SearchReturned == pc \notin {"setup", "proceed", "search", "cancelled"} /\ API_KEY # "demo"

\* C6: search request k+1 is issued if and only if response k had status OK and
\* carried a continuation token, after the fixed 2 s delay; the search stops at
\* the first response that is not OK or has no token; no page is requested
\* twice; and the providers returned are the results of all OK responses, in
\* order (earlier pages are kept when a later page is not OK).
C6_Pagination ==
    LET part == SearchPart(log)
        reqs == SearchRequests
    IN  \* requests and 2 s sleeps alternate, starting with a request
        /\ \A i \in 1..Len(part) :
              IF i % 2 = 1 THEN part[i].op = "search"
              ELSE part[i].op = "sleep" /\ part[i].t = 20
        \* a request follows only a response that was OK and carried a token,
        \* and asks for the page of that token
        /\ \A k \in 1..(Len(reqs) - 1) :
              /\ OkWithToken(reqs[k].data)
              /\ reqs[k + 1].page = reqs[k].data.next_page_token.page
        \* while the loop runs the next request is due: the last response was
        \* OK with a token, the delay has been waited and params hold the token
        /\ (Searching /\ reqs # <<>>) =>
              /\ OkWithToken(reqs[Len(reqs)].data)
              /\ part[Len(part)].op = "sleep"
              /\ params = reqs[Len(reqs)].data.next_page_token
        \* the loop ends at the first response that is not OK or has no token
        /\ SearchReturned =>
              /\ reqs # <<>>
              /\ ~OkWithToken(reqs[Len(reqs)].data)
              /\ part[Len(part)].op = "search"
        \* no page is requested twice
        /\ \A k, l \in 1..Len(reqs) : k # l => reqs[k].page # reqs[l].page
        \* the providers are the results of the OK responses, in order
        /\ providers = OkResults(reqs)

\* C6 witness: the search has returned after at least two requests, the last
\* response was not OK although it carried results and a token, and the
\* providers of the earlier page are kept.
C6_Witness ==
    /\ SearchReturned
    /\ Len(SearchRequests) >= 2
    /\ SearchRequests[Len(SearchRequests)].data.status # "OK"
    /\ SearchRequests[Len(SearchRequests)].data.results # <<>>
    /\ SearchRequests[Len(SearchRequests)].data.next_page_token.page # 0
    /\ providers # <<>>

DetailRequests == SelectSeq(log, IsDetails)

\* the combined records of the detail responses that were OK with a non-empty
\* record, in the order of the requests
RECURSIVE ExpectedRecords(_)
ExpectedRecords(reqs) ==
    IF reqs = <<>> THEN <<>>
    ELSE (IF Head(reqs).data.status = "OK" /\ DOMAIN Head(reqs).data.result # {}
          THEN <<Combined(providers[Head(reqs).hit], Head(reqs).data.result)>>
          ELSE <<>>)
         \o ExpectedRecords(Tail(reqs))

CollectReturned ==
    pc \notin {"setup", "proceed", "search", "details", "cancelled"}
    /\ API_KEY # "demo" /\ providers # <<>>

\* C7: the output holds exactly one combined record for each hit that has an
\* identifier and whose detail fetch returned a non-empty record, in the order
\* of the hits; a hit without identifier is skipped without a detail fetch; a
\* failed fetch is omitted; the loop goes on over all the hits, and no record
\* collected earlier is lost.
C7_OneRecordPerFetchedHit ==
    LET reqs == DetailRequests
    IN  \* one detail fetch for each hit passed that has an identifier, in the
        \* order of the hits, and none for a hit without identifier
        /\ \A k \in 1..Len(reqs) :
              /\ reqs[k].hit \in 1..(hit - 1)
              /\ providers[reqs[k].hit].place_id # None
              /\ reqs[k].place_id = providers[reqs[k].hit].place_id
        /\ \A k \in 1..(Len(reqs) - 1) : reqs[k].hit < reqs[k + 1].hit
        /\ \A j \in 1..(hit - 1) :
              providers[j].place_id # None => \E k \in 1..Len(reqs) : reqs[k].hit = j
        \* the records collected are those of the non-empty OK responses
        /\ detailed_providers = ExpectedRecords(reqs)
        \* the loop has gone over every hit when collect_all_providers returns
        /\ CollectReturned => hit = Len(providers) + 1
        /\ pc = "save_raw" => df = DataFrame(detailed_providers)

\* C7 witness: the collection has returned records although one hit had no
\* identifier, one fetch failed and one fetch returned an empty record, each
\* before a hit that was collected.
C7_Witness ==
    /\ pc = "save_raw"
    /\ Len(providers) = 2
    /\ \/ providers[1].place_id = None
       \/ \E k \in 1..Len(DetailRequests) :
             /\ DetailRequests[k].hit = 1
             /\ DetailRequests[k].data.status # "OK"
    /\ Len(detailed_providers) = 1
    /\ detailed_providers[1].place_id = providers[2].place_id

\* C8 (as claimed): with no reviews the estimated price is 1200 for rating 3.5,
\* 1200 for an absent rating, and 1200 + (rating - 3.5) * 200 for any other
\* present rating.
C8_NoReviewPrice ==
    Engineered =>
        \A i \in 1..Len(df) :
            df[i].reviews = <<>> =>
                /\ df[i].rating = Num(35) => df[i].estimated_price = Num(1200)
                /\ ~notna(df[i].rating) => df[i].estimated_price = Num(1200)
                /\ notna(df[i].rating) =>
                      df[i].estimated_price = Num(1200 + (df[i].rating.v - 35) * 20)

FileNames == [k \in 1..Len(files) |-> files[k].name]

IsPrefix(a, b) == Len(a) <= Len(b) /\ \A k \in 1..Len(a) : a[k] = b[k]

ThreeDatasets ==
    <<"childcare_raw_google.csv", "childcare_processed.csv", "top_recommendations.csv">>

\* C9 (as claimed): a completed run has written the raw, the processed and the
\* top-recommendations dataset, in this order; the top recommendations are
\* never written unless raw and processed were written before; a cancelled run
\* and a run that collects nothing write none.
C9_ThreeDatasetsInOrder ==
    /\ pc = "done" => FileNames = ThreeDatasets
    /\ (\E k \in 1..Len(files) : files[k].name = "top_recommendations.csv")
          => FileNames = ThreeDatasets
    /\ pc \in {"cancelled", "no_data"} => files = <<>>

\* C9 (amended): a completed run with a real key has written raw, processed,
\* top recommendations, in this order; a completed demo run has written
\* processed, then top recommendations, and no raw dataset; the top
\* recommendations are never written unless the processed dataset (and, with a
\* real key, the raw dataset before it) was written earlier in the run; a
\* cancelled run and a run that collects nothing write none.
C9_DatasetsInOrder ==
    LET expected == IF API_KEY = "demo" THEN Tail(ThreeDatasets) ELSE ThreeDatasets
    IN  /\ IsPrefix(FileNames, expected)
        /\ pc = "done" => FileNames = expected
        /\ (\E k \in 1..Len(files) : files[k].name = "top_recommendations.csv")
              => FileNames = expected
        /\ pc \in {"cancelled", "no_data"} => files = <<>>

\* C9 witness: a run with a real key has completed with its three datasets.
C9_Witness ==
    /\ pc = "done"
    /\ API_KEY = "key"
    /\ FileNames = ThreeDatasets
    /\ files[3].rows >= 1

\* C14 (as claimed): extract_review_features returns the same keys for a
\* provider without reviews as for one with reviews, mentions_reggio and
\* mentions_stem included, every count, flag and avg_review_length being 0
\* without reviews; so every row of the processed dataset has the same feature
\* columns whichever providers have reviews.
C14_SameFeatureKeys ==
    Engineered =>
        \A i \in 1..Len(df) :
            /\ DOMAIN extract_review_features(df[i].reviews) = ReviewKeys
            /\ DOMAIN df[i].features = ReviewKeys
            /\ df[i].reviews = <<>> =>
                  \A k \in DOMAIN df[i].features : df[i].features[k] = Num(0)

----------------------------------------------------------------------------
\* Recommender harness: recommend applied to an engineered dataset with any
\* preferences and any top_n.

\* Largest number of rows of a dataset the harnesses draw.
MaxRows == 3

HarnessCells ==
    [rating : {None, Num(45)},
     location : {[lat |-> None, lng |-> None],
                 [lat |-> Num(425001), lng |-> Num(-708578)]},
     reviews : {<<>>, <<[text |-> <<"Affordable", "Montessori">>]>>}]

\* the records collect_all_providers can hand to pd.DataFrame
HarnessRecords(n) ==
    {[i \in 1..n |->
         [place_id |-> Num(i), name |-> Num(i), rating |-> c[i].rating,
          latitude |-> c[i].location.lat, longitude |-> c[i].location.lng,
          reviews |-> c[i].reviews]] : c \in [1..n -> HarnessCells]}

\* the datasets engineer_all_features produces from them
EngineeredDatasets(n) ==
    {engineer_all_features(DataFrame(records)) : records \in HarnessRecords(n)}

RecommendInit ==
    /\ pc = "recommend"
    /\ API_KEY = ""
    /\ params = NoToken
    /\ providers = <<>>
    /\ hit = 0
    /\ detailed_providers = <<>>
    /\ log = <<>>
    /\ \E n \in 1..MaxRows : df \in EngineeredDatasets(n)
    /\ preferences \in {user_preferences,
                        [max_distance |-> 30, max_budget |-> 1000, values |-> <<>>]}
    /\ top_n \in 1..MaxRows
    /\ recommendations = <<>>
    /\ files = <<>>
    /\ IdleScore
    /\ IdleViewer

SpecRecommend == RecommendInit /\ [][Recommend]_vars

Recommended == pc = "display"

Returned == {recommendations[k] : k \in 1..Len(recommendations)}

\* C4: recommend returns exactly min(top_n, number of rows) rows, hence at most
\* top_n, in non-increasing order of match_score, and every returned row has a
\* match_score greater than or equal to that of every row not returned.
C4_TopN ==
    Recommended =>
        /\ Len(recommendations) = Min2(top_n, Len(df))
        /\ Len(recommendations) <= top_n
        /\ Returned \subseteq 1..Len(df)
        /\ Cardinality(Returned) = Len(recommendations)
        /\ \A k \in 1..(Len(recommendations) - 1) :
              df[recommendations[k]].match_score >= df[recommendations[k + 1]].match_score
        /\ \A i \in Returned : \A j \in (1..Len(df)) \ Returned :
              df[i].match_score >= df[j].match_score

\* C4 witness: fewer rows are returned than the dataset has, and the dataset
\* has rows of different scores, the first of them not the best.
C4_Witness ==
    /\ Recommended
    /\ Len(recommendations) < Len(df)
    /\ Len(recommendations) >= 2
    /\ df[1].match_score < df[Len(df)].match_score
    /\ df[recommendations[1]].match_score > df[recommendations[2]].match_score

\* C5: rows with equal match_score are ordered, and selected at the cut-off,
\* by their position in the dataset: the earlier row is ranked first and is
\* the one kept.
C5_TiesInDatasetOrder ==
    Recommended =>
        /\ \A k, l \in 1..Len(recommendations) :
              (k < l /\ df[recommendations[k]].match_score
                          = df[recommendations[l]].match_score)
                 => recommendations[k] < recommendations[l]
        /\ \A i \in Returned : \A j \in (1..Len(df)) \ Returned :
              df[i].match_score = df[j].match_score => i < j

\* C5 witness: two returned rows tie, and a returned row ties with a row that
\* was cut off.
C5_Witness ==
    /\ Recommended
    /\ \E k \in 1..(Len(recommendations) - 1) :
          df[recommendations[k]].match_score = df[recommendations[k + 1]].match_score
    /\ \E i \in Returned : \E j \in (1..Len(df)) \ Returned :
          df[i].match_score = df[j].match_score

----------------------------------------------------------------------------
\* The viewer  (app.py 56-135).  The script runs from top to bottom when the
\* page opens and again after every change of a widget.

\* Largest number of rows of the processed dataset the viewer reads.
MaxViewRows == 2

\* df.to_csv(...) then pd.read_csv(...): a missing value comes back as NaN
read_cell(x) == IF x = None THEN NaN ELSE x

read_csv(rows) ==
    [i \in 1..Len(rows) |->
        [k \in DOMAIN rows[i] |->
            IF k \in {"rating", "latitude", "longitude", "place_id"}
            THEN read_cell(rows[i][k]) ELSE rows[i][k]]]

\* values = [] and one append per ticked checkbox, lines 111-120
RECURSIVE Ticked(_, _)
Ticked(w, names) ==
    IF names = <<>> THEN <<>>
    ELSE (IF w[Head(names)] THEN <<Head(names)>> ELSE <<>>) \o Ticked(w, Tail(names))

values_of(w) == Ticked(w, <<"montessori", "play_based", "stem", "reggio">>)

prefs_of(w) ==
    [max_distance |-> w.max_distance, max_budget |-> w.max_budget, values |-> values_of(w)]

\* df['rating'].fillna(0)
fillna0(x) == IF notna(x) THEN x.v ELSE 0

\* a scoring that also writes rating.fillna(0) back into the frame
view_scored_fillna(rows, w) ==
    [i \in 1..Len(rows) |->
        WithMatchScore([rows[i] EXCEPT !.rating = Num(fillna0(@))],
                       app_calculate_match_score(rows[i], prefs_of(w)))]

\* df['match_score'] = df.apply(lambda row: calculate_match_score(row, ...)), lines 123-126
view_scored(rows, w) ==
    [i \in 1..Len(rows) |->
        WithMatchScore(rows[i], app_calculate_match_score(rows[i], prefs_of(w)))]

\* the filter, lines 129-132: the index labels of the rows kept
filtered_labels(d, w) ==
    {i \in 1..Len(d) :
        /\ notna(d[i].distance_miles)
        /\ d[i].distance_miles.v <= w.max_distance * 12
        /\ fillna0(d[i].rating) >= w.min_rating}

\* sort_values('match_score', ascending=False), line 135: the kept rows in
\* non-increasing order of match_score; the default sort is not stable, so rows
\* of equal score come in any order
RECURSIVE sorted_orders(_, _)
sorted_orders(d, labels) ==
    IF labels = {} THEN {<<>>}
    ELSE LET largest == {i \in labels :
                            \A j \in labels : d[i].match_score >= d[j].match_score}
         IN  UNION {{<<i>> \o s : s \in sorted_orders(d, labels \ {i})} : i \in largest}

\* a script run that reuses the match_score column of the run before
RerunCached(w) ==
    /\ widgets' = w
    /\ view_df' = IF view_df # <<>> THEN view_df ELSE view_scored(read_csv(csv), w)
    /\ filtered_df' \in sorted_orders(view_df', filtered_labels(view_df', w))
    /\ UNCHANGED <<csv, mainVars, scoreVars>>

\* one run of the script with the widget values w
Rerun(w) ==
    /\ widgets' = w
    /\ view_df' = view_scored(read_csv(csv), w)
    /\ filtered_df' \in sorted_orders(view_df', filtered_labels(view_df', w))
    /\ UNCHANGED <<csv, mainVars, scoreVars>>

\* the slider positions the model moves between
DistanceChoices == {1, 10}
BudgetChoices == {500, 1500}
MinRatingChoices == {10, 35}

SetMaxDistance ==
    \E v \in DistanceChoices \ {widgets.max_distance} :
        Rerun([widgets EXCEPT !.max_distance = v])

SetMaxBudget ==
    \E v \in BudgetChoices \ {widgets.max_budget} :
        Rerun([widgets EXCEPT !.max_budget = v])

SetMinRating ==
    \E v \in MinRatingChoices \ {widgets.min_rating} :
        Rerun([widgets EXCEPT !.min_rating = v])

ToggleValue ==
    \E name \in ValueNames : Rerun([widgets EXCEPT ![name] = ~@])

\* the processed datasets the collection script can have written
ProcessedDatasets == UNION {EngineeredDatasets(n) : n \in 1..MaxViewRows}

\* the page as first shown: the script has run once with the initial values
ViewerInit ==
    /\ csv \in ProcessedDatasets
    /\ widgets = default_widgets
    /\ view_df = view_scored(read_csv(csv), default_widgets)
    /\ filtered_df \in sorted_orders(view_df, filtered_labels(view_df, default_widgets))
    /\ IdleMain
    /\ IdleScore
    /\ preferences = user_preferences

ViewerNext == SetMaxDistance \/ SetMaxBudget \/ SetMinRating \/ ToggleValue

SpecViewer == ViewerInit /\ [][ViewerNext]_vars

\* C10: after any sequence of preference changes the match_score of every row
\* is calculate_match_score of that row under the current preferences, and the
\* filtered, sorted list is the one of the current preferences and scores.
C10_ScoresAreCurrent ==
    /\ Len(view_df) = Len(csv)
    /\ \A i \in 1..Len(view_df) :
          view_df[i].match_score
             = app_calculate_match_score(read_csv(csv)[i], prefs_of(widgets))
    /\ {filtered_df[k] : k \in 1..Len(filtered_df)} = filtered_labels(view_df, widgets)
    /\ \A k \in 1..(Len(filtered_df) - 1) :
          app_calculate_match_score(read_csv(csv)[filtered_df[k]], prefs_of(widgets))
             >= app_calculate_match_score(read_csv(csv)[filtered_df[k + 1]],
                                          prefs_of(widgets))

\* C10 witness: every preference differs from its initial value, a listed row
\* has a score other than its score under the initial preferences.
C10_Witness ==
    /\ widgets.max_distance # default_widgets.max_distance
    /\ widgets.max_budget # default_widgets.max_budget
    /\ widgets.min_rating # default_widgets.min_rating
    /\ values_of(widgets) # <<>>
    /\ \E k \in 1..Len(filtered_df) :
          view_df[filtered_df[k]].match_score
             # app_calculate_match_score(read_csv(csv)[filtered_df[k]],
                                         prefs_of(default_widgets))

----------------------------------------------------------------------------
\* The ranked list of the viewer's first tab  (app.py 165-171)

\* a list that shows every row of the frame
head_uncapped(rows, n) == rows

\* DataFrame.head(n): the first n rows
head(rows, n) == SubSeq(rows, 1, Min2(n, Len(rows)))

\* `for idx, row in filtered_df.head(10).iterrows()`, line 170: the index
\* labels of the rows listed, in the order listed
top_matches == head(filtered_df, 10)

\* Largest number of rows of a processed dataset longer than the list.
MaxListRows == 12

\* the reviews of provider i of a long dataset
ListingReviews(i) ==
    IF i % 4 = 0 THEN <<[text |-> <<"Amazing", "montessori">>]>> ELSE <<>>

\* A processed dataset of n providers, provider i at i tenths of a mile (999
\* miles if without coordinates), rated 3.0, 4.0 or 5.0 (or unrated), priced
\* at 500 or 600.
ListingDataset(n, far, unrated) ==
    LET reviewed == [i \in 1..n |-> [reviews |-> ListingReviews(i)]]
    IN  [i \in 1..n |->
            [name |-> Num(i),
             rating |-> IF i \in unrated THEN NaN ELSE Num(30 + 10 * (i % 3)),
             reviews |-> ListingReviews(i),
             distance_miles |-> IF i \in far THEN Num(9990) ELSE Num(i),
             features |-> review_df(reviewed)[i],
             estimated_price |-> Num(500 + 100 * (i % 2)),
             quality_score |->
                 quality_score(IF i \in unrated THEN NaN ELSE Num(30 + 10 * (i % 3)),
                               review_df(reviewed)[i])]]

ListingDatasets ==
    {ListingDataset(n, far, unrated) :
        n \in (MaxListRows - 2)..MaxListRows, far \in SUBSET {1, 7}, unrated \in SUBSET {2}}

\* the page as first shown for a long dataset
ListingInit ==
    /\ csv \in ListingDatasets
    /\ widgets = default_widgets
    /\ view_df = view_scored(read_csv(csv), default_widgets)
    /\ filtered_df \in sorted_orders(view_df, filtered_labels(view_df, default_widgets))
    /\ IdleMain
    /\ IdleScore
    /\ preferences = user_preferences

SpecListing == ListingInit /\ [][ViewerNext]_vars

Listed == {top_matches[k] : k \in 1..Len(top_matches)}

\* row i of the dataset read satisfies the filter of the current preferences
PassesFilter(i) ==
    LET r == read_csv(csv)[i]
    IN  /\ notna(r.distance_miles)
        /\ r.distance_miles.v <= widgets.max_distance * 12
        /\ (IF notna(r.rating) THEN r.rating.v ELSE 0) >= widgets.min_rating

CurrentScore(i) == app_calculate_match_score(read_csv(csv)[i], prefs_of(widgets))

\* C11: for every preference set the ranked list holds only rows with
\* distance_miles <= max_distance * 1.2 and rating (absent as 0) >= min_rating,
\* has at most 10 entries, is in non-increasing match_score order, and no row
\* that satisfies the filter and is not listed has a higher match_score than a
\* listed row.
C11_RankedList ==
    /\ \A i \in Listed : PassesFilter(i)
    /\ Len(top_matches) <= 10
    /\ \A k \in 1..(Len(top_matches) - 1) :
          CurrentScore(top_matches[k]) >= CurrentScore(top_matches[k + 1])
    /\ \A i \in (1..Len(csv)) \ Listed :
          PassesFilter(i) => \A j \in Listed : CurrentScore(i) <= CurrentScore(j)

\* C11 witness: after a change of the preferences more than 10 rows satisfy
\* the filter, a row fails it, and the list shows 10 rows.
C11_Witness ==
    /\ widgets # default_widgets
    /\ Cardinality({i \in 1..Len(csv) : PassesFilter(i)}) > 10
    /\ \E i \in 1..Len(csv) : ~PassesFilter(i)
    /\ Len(top_matches) = 10

----------------------------------------------------------------------------
\* The engineered dataset after it is persisted: the script goes on from
\* df.to_csv('childcare_processed.csv') to the recommendations, the viewer
\* reads the file and reruns on every change of a widget.

\* the providers the persisted dataset is engineered from: unrated, without
\* coordinates and reviews; rated, located and reviewed; unrated and reviewed
FrameCells ==
    {[rating |-> None, location |-> [lat |-> None, lng |-> None], reviews |-> <<>>],
     [rating |-> Num(45), location |-> [lat |-> Num(425001), lng |-> Num(-708578)],
      reviews |-> <<[text |-> <<"Affordable", "Montessori">>]>>],
     [rating |-> None, location |-> [lat |-> Num(425001), lng |-> Num(-708578)],
      reviews |-> <<[text |-> <<"Affordable", "Montessori">>]>>]}

FrameRecords(n) ==
    {[i \in 1..n |->
         [place_id |-> Num(i), name |-> Num(i), rating |-> c[i].rating,
          latitude |-> c[i].location.lat, longitude |-> c[i].location.lng,
          reviews |-> c[i].reviews]] : c \in [1..n -> FrameCells]}

FrameDatasets(n) ==
    {engineer_all_features(DataFrame(records)) : records \in FrameRecords(n)}

ReadOnlyInit ==
    /\ pc = "recommend"
    /\ API_KEY = "demo"
    /\ params = NoToken
    /\ providers = <<>>
    /\ hit = 0
    /\ detailed_providers = <<>>
    /\ log = <<>>
    /\ \E n \in 1..MaxViewRows : df \in FrameDatasets(n)
    /\ preferences = user_preferences
    /\ top_n = 10
    /\ recommendations = <<>>
    /\ files = <<Written("childcare_processed.csv")>>
    /\ IdleScore
    /\ csv = df
    /\ widgets = default_widgets
    /\ view_df = view_scored(read_csv(csv), default_widgets)
    /\ filtered_df \in sorted_orders(view_df, filtered_labels(view_df, default_widgets))

ReadOnlyNext ==
    \/ Recommend
    \/ Display
    \/ SaveTop
    \/ SetMaxDistance
    \/ SetMaxBudget
    \/ SetMinRating
    \/ ToggleValue

SpecReadOnly == ReadOnlyInit /\ [][ReadOnlyNext]_vars

\* frame has the rows of `rows`, in their order, every column with its value,
\* and no other column than match_score
FrameKept(rows, frame) ==
    /\ Len(frame) = Len(rows)
    /\ \A i \in 1..Len(rows) :
          /\ DOMAIN rows[i] \subseteq DOMAIN frame[i]
          /\ DOMAIN frame[i] \subseteq DOMAIN rows[i] \cup {"match_score"}
          /\ \A k \in DOMAIN rows[i] : frame[i][k] = rows[i][k]

\* a step leaves the persisted processed dataset alone: its content is kept
\* and no file of its name is written
ProcessedNotRewritten ==
    /\ csv' = csv
    /\ Len(files') >= Len(files)
    /\ \A k \in 1..Len(files') :
          IF k <= Len(files) THEN files'[k] = files[k]
          ELSE files'[k].name # "childcare_processed.csv"

\* C15: recommend and the viewer treat the engineered dataset as read-only:
\* after recommend and after every recomputation of the viewer the raw and
\* derived values of every row, the number of rows and their order are those
\* of the persisted dataset, match_score is the only column added, and the
\* persisted processed dataset is never rewritten.
C15_ReadOnly ==
    /\ [](FrameKept(csv, df) /\ FrameKept(read_csv(csv), view_df))
    /\ [][ProcessedNotRewritten]_vars

\* C15 witness: recommend has added match_score to a dataset of several rows,
\* the script has written its recommendations, and the viewer has recomputed
\* its scores for changed preferences.
C15_Witness ==
    /\ pc = "done"
    /\ Len(df) >= 2
    /\ \A i \in 1..Len(df) : "match_score" \in DOMAIN df[i]
    /\ Len(files) = 2
    /\ widgets.max_budget # default_widgets.max_budget
    /\ values_of(widgets) # <<>>
    /\ \E i \in 1..Len(view_df) : view_df[i].rating = NaN

====
